---- MODULE Spec2Model ----
(***************************************************************************)
(* Model of the figma-icon-sync scripts: optimize_svg.py (SVG normaliser,  *)
(* name canonicaliser, icon file processor) and browse_icons.py (metadata  *)
(* parsers and icon classifier).                                           *)
(*                                                                         *)
(* A Python str is modelled as a sequence of one-character strings, so     *)
(* that the regular expressions and string methods of the source act on    *)
(* characters as they do in the code.                                      *)
(***************************************************************************)
EXTENDS Integers, Sequences, FiniteSets, TLC

VARIABLES
    pc,               \* position of the run under way
    name,             \* to_pascal_case: its argument
    pascal_once,      \* to_pascal_case(name)
    pascal_twice,     \* to_pascal_case(to_pascal_case(name))
    svg_content,      \* optimize_svg: its argument
    optimized_once,   \* optimize_svg(svg_content)
    optimized_twice,  \* optimize_svg(optimize_svg(svg_content))
    input_path,       \* process_icon_file: the input file's name
    force_outlined,   \* process_icon_file: "None", "True" or "False"
    file_text,        \* the text stored in the input file
    content,          \* process_icon_file: the text read from the file
    optimized,        \* process_icon_file: optimize_svg(content)
    output_name,      \* process_icon_file: the output file's name
    written,          \* output directory: sequence of <<file name, text>> written
    dir_made,         \* whether the output directory has been created
    raised,           \* the exception process_icon_file raised, NotRaised if none
    node_name,        \* is_icon_node: its argument name
    node_type,        \* is_icon_node: its argument node_type
    is_icon,          \* is_icon_node(node_name, node_type), "pending" before
    tree,             \* parse_json_metadata: the nodes of the tree it is given
    metadata,         \* parse_figma_metadata, parse_xml_metadata: the text given
    parsed,           \* the outcome of the parser: list returned or exception
    variant_name,     \* determine_variant: its argument
    variant_found     \* determine_variant(variant_name): <<base_name, is_outlined>>

nameVars == <<name, pascal_once, pascal_twice>>
svgVars == <<svg_content, optimized_once, optimized_twice>>
procVars == <<input_path, force_outlined, file_text, content, optimized,
              output_name, written, dir_made, raised>>

iconVars == <<node_name, node_type, is_icon>>
metaVars == <<tree, metadata, parsed>>
variantVars == <<variant_name, variant_found>>

vars == <<pc, nameVars, svgVars, procVars, iconVars, metaVars, variantVars>>

\* Python's None, for a variable that holds a text: no text is equal to it,
\* a text being a sequence of single characters.
None == << "None" >>

\* force_outlined is None, True or False
ForceValues == {"None", "True", "False"}

\* no exception has been raised
NotRaised == "no exception"

-----------------------------------------------------------------------------
(* Characters and the str methods the scripts use.                         *)

LowerLetters == <<"a","b","c","d","e","f","g","h","i","j","k","l","m",
                  "n","o","p","q","r","s","t","u","v","w","x","y","z">>
UpperLetters == <<"A","B","C","D","E","F","G","H","I","J","K","L","M",
                  "N","O","P","Q","R","S","T","U","V","W","X","Y","Z">>
LowerSet == {LowerLetters[i] : i \in 1..26}
UpperSet == {UpperLetters[i] : i \in 1..26}
DigitSet == {"0","1","2","3","4","5","6","7","8","9"}
SpaceSet == {" ", "\n", "\t", "\r"}

ToLowerMap == [c \in UpperSet |-> LowerLetters[CHOOSE i \in 1..26 : UpperLetters[i] = c]]
ToUpperMap == [c \in LowerSet |-> UpperLetters[CHOOSE i \in 1..26 : LowerLetters[i] = c]]

LowerCh(c) == IF c \in UpperSet THEN ToLowerMap[c] ELSE c
UpperCh(c) == IF c \in LowerSet THEN ToUpperMap[c] ELSE c

\* str.lower(), str.upper()
Lower(s) == [i \in 1..Len(s) |-> LowerCh(s[i])]
Upper(s) == [i \in 1..Len(s) |-> UpperCh(s[i])]

\* regex classes: \s, \w, \d
IsSpace(c) == c \in SpaceSet
IsWord(c) == c \in LowerSet \cup UpperSet \cup DigitSet \cup {"_"}
IsDigit(c) == c \in DigitSet
\* [-_\s]
IsDelim(c) == c \in {"-", "_"} \cup SpaceSet
\* the characters str.strip('-_') removes
IsDashUnderscore(c) == c \in {"-", "_"}

\* s[i:j] of Python with 1-based i and exclusive j
Slice(s, i, j) == SubSeq(s, i, j - 1)

\* lit occurs in s at position i
StartsAt(s, i, lit) ==
    /\ i >= 1
    /\ i + Len(lit) - 1 <= Len(s)
    /\ \A k \in 1..Len(lit) : s[i + k - 1] = lit[k]

\* lit occurs in s at position i, letter case ignored (re.IGNORECASE)
StartsAtI(s, i, lit) ==
    /\ i >= 1
    /\ i + Len(lit) - 1 <= Len(s)
    /\ \A k \in 1..Len(lit) : LowerCh(s[i + k - 1]) = LowerCh(lit[k])

\* lit in s
Contains(s, lit) == \E i \in 1..Len(s) : StartsAt(s, i, lit)

\* s.endswith(lit)
EndsWith(s, lit) == StartsAt(s, Len(s) - Len(lit) + 1, lit)

\* the first position >= i at which lit occurs in s, 0 if there is none
FindFrom(s, i, lit) ==
    LET hits == {j \in i..Len(s) : StartsAt(s, j, lit)}
    IN IF hits = {} THEN 0 ELSE CHOOSE j \in hits : \A h \in hits : j <= h

\* the end (exclusive) of the longest run of characters of class P from i
RunEnd(s, i, P(_)) ==
    CHOOSE j \in i..(Len(s) + 1) :
        /\ \A k \in i..(j - 1) : P(s[k])
        /\ (j = Len(s) + 1 \/ ~P(s[j]))

\* the first position >= i at which the pattern of MatchEnd matches a
\* non-empty text, 0 if there is none; MatchEnd(s, j) is the end (exclusive)
\* of the match at j, 0 if the pattern does not match there
NextMatch(s, i, MatchEnd(_, _)) ==
    LET hits == {j \in i..Len(s) : MatchEnd(s, j) > j}
    IN IF hits = {} THEN 0 ELSE CHOOSE j \in hits : \A h \in hits : j <= h

\* re.sub(pattern, repl, s) for a pattern that matches no empty string:
\* matches are taken leftmost and do not overlap, f[i] is the result for s[i:]
ReSub(s, MatchEnd(_, _), repl) ==
    LET f[i \in 1..(Len(s) + 1)] ==
            LET m == NextMatch(s, i, MatchEnd)
            IN IF m = 0 THEN Slice(s, i, Len(s) + 1)
               ELSE Slice(s, i, m) \o repl \o f[MatchEnd(s, m)]
    IN f[1]

\* str.replace(old, new): every non-overlapping occurrence, left to right
Replace(s, old, new) ==
    ReSub(s, LAMBDA t, i : IF StartsAt(t, i, old) THEN i + Len(old) ELSE 0, new)

\* the regex anchor $ without re.MULTILINE: at the end of the string, or
\* just before a newline that is the last character
AtDollar(s, j) == j = Len(s) + 1 \/ (j = Len(s) /\ s[j] = "\n")

\* str.strip(chars) for the class P; str.strip() is Strip(s, IsSpace)
Strip(s, P(_)) ==
    LET keep == {i \in 1..Len(s) : ~P(s[i])}
    IN IF keep = {} THEN <<>>
       ELSE SubSeq(s, CHOOSE i \in keep : \A k \in keep : i <= k,
                      CHOOSE i \in keep : \A k \in keep : i >= k)

\* ''.join(parts)
RECURSIVE Join(_)
Join(parts) == IF parts = <<>> THEN <<>> ELSE Head(parts) \o Join(Tail(parts))

-----------------------------------------------------------------------------
(* optimize_svg.py: to_pascal_case                                          *)

Extensions == {<<"s","v","g">>, <<"p","n","g">>, <<"j","p","g">>}

\* match of \.(svg|png|jpg)$ at i, re.IGNORECASE
ExtMatchEnd(s, i) ==
    IF /\ i + 3 <= Len(s)
       /\ s[i] = "."
       /\ \E e \in Extensions : StartsAtI(s, i + 1, e)
       /\ AtDollar(s, i + 4)
    THEN i + 4 ELSE 0

\* re.split(r'[-_\s]+', s): the pieces between the runs of delimiters, the
\* empty pieces at either end included
SplitDelims(s) ==
    LET f[i \in 1..(Len(s) + 2)] ==
            \* the pieces of s[i:], a piece starting at i
            IF i > Len(s) THEN << <<>> >>
            ELSE LET e == RunEnd(s, i, LAMBDA c : ~IsDelim(c))
                 IN IF e > Len(s) THEN << Slice(s, i, e) >>
                    ELSE << Slice(s, i, e) >> \o f[RunEnd(s, e, IsDelim)]
    IN f[1]

\* match of ([a-z])([A-Z]) at i
CamelMatchEnd(s, i) ==
    IF i + 1 <= Len(s) /\ s[i] \in LowerSet /\ s[i + 1] \in UpperSet
    THEN i + 2 ELSE 0

\* re.sub(r'([a-z])([A-Z])', r'\1 \2', word)
CamelSplit(word) ==
    LET f[i \in 1..(Len(word) + 1)] ==
            LET m == NextMatch(word, i, CamelMatchEnd)
            IN IF m = 0 THEN Slice(word, i, Len(word) + 1)
               ELSE Slice(word, i, m) \o <<word[m], " ", word[m + 1]>> \o f[m + 2]
    IN f[1]

\* str.split(): the non-empty pieces between runs of whitespace
SplitSpace(s) ==
    LET f[i \in 1..(Len(s) + 1)] ==
            IF i > Len(s) THEN <<>>
            ELSE IF IsSpace(s[i]) THEN f[i + 1]
            ELSE LET e == RunEnd(s, i, LAMBDA c : ~IsSpace(c))
                 IN << Slice(s, i, e) >> \o f[e]
    IN f[1]

\* str.capitalize(): first character upper-cased, the rest lower-cased
Capitalize(w) ==
    [i \in 1..Len(w) |-> IF i = 1 THEN UpperCh(w[i]) ELSE LowerCh(w[i])]

to_pascal_case(n) ==
    LET stripped == ReSub(n, ExtMatchEnd, <<>>)
        words == SplitDelims(stripped)
        RECURSIVE Expand(_)
        Expand(ws) ==
            IF ws = <<>> THEN <<>>
            ELSE SplitSpace(CamelSplit(Head(ws))) \o Expand(Tail(ws))
        expanded_words == Expand(words)
    IN Join([i \in 1..Len(expanded_words) |-> Capitalize(expanded_words[i])])

-----------------------------------------------------------------------------
(* optimize_svg.py: determine_variant                                       *)

\* match at i of [-_\s]?<word>$ (re.IGNORECASE), where word is one of the
\* alternatives of the pattern
SuffixMatchEnd(s, i, alternatives) ==
    LET j == IF i <= Len(s) /\ IsDelim(s[i]) THEN i + 1 ELSE i
        ok == {w \in alternatives : StartsAtI(s, j, w) /\ AtDollar(s, j + Len(w))}
    IN IF ok = {} THEN 0
       ELSE LET w == CHOOSE w \in ok : TRUE IN j + Len(w)

\* the alternatives of each pattern of outlined_patterns, in list order
outlined_patterns ==
    << { <<"o","u","t","l","i","n","e","d">>, <<"o","u","t","l","i","n","e">> },
       { <<"o","u","t","l","i","n","e">> },
       { <<"l","i","n","e">> },
       { <<"s","t","r","o","k","e">> } >>

\* re.search(pattern, s, re.IGNORECASE) is not None
SuffixSearch(s, alternatives) ==
    \E i \in 1..Len(s) : SuffixMatchEnd(s, i, alternatives) > 0

\* re.sub(pattern, '', s, flags=re.IGNORECASE)
SuffixSub(s, alternatives) ==
    ReSub(s, LAMBDA t, i : SuffixMatchEnd(t, i, alternatives), <<>>)

\* the first pattern of the list that matches lower_name, 0 if none does
FirstOutlinedPattern(lower_name) ==
    LET hits == {k \in 1..Len(outlined_patterns) :
                    SuffixSearch(lower_name, outlined_patterns[k])}
    IN IF hits = {} THEN 0 ELSE CHOOSE k \in hits : \A h \in hits : k <= h

\* determine_variant(name): <<base_name, is_outlined>>
determine_variant(n) ==
    LET lower_name == Lower(n)
        k == FirstOutlinedPattern(lower_name)
        base_name == IF k = 0 THEN n ELSE SuffixSub(n, outlined_patterns[k])
    IN << Strip(base_name, IsDashUnderscore), k # 0 >>

-----------------------------------------------------------------------------
(* optimize_svg.py: optimize_svg                                            *)

L_svg_open     == <<"<","s","v","g"," ">>
L_viewBox      == <<"v","i","e","w","B","o","x">>
L_viewBox_eq   == <<"v","i","e","w","B","o","x","=","\"">>
L_viewBox_24   == <<"v","i","e","w","B","o","x","=","\"","0"," ","0"," ","2","4"," ","2","4","\"">>
L_width_eq     == <<"w","i","d","t","h","=">>
L_width_q      == <<"w","i","d","t","h","=","\"">>
L_width_24     == <<"w","i","d","t","h","=","\"","2","4","\"">>
L_height_eq    == <<"h","e","i","g","h","t","=">>
L_height_q     == <<"h","e","i","g","h","t","=","\"">>
L_height_24    == <<"h","e","i","g","h","t","=","\"","2","4","\"">>
L_data         == <<"d","a","t","a","-">>
L_eq_quote     == <<"=","\"">>
L_xml_open     == <<"<","?","x","m","l">>
L_doctype      == <<"<","!","D","O","C","T","Y","P","E">>
L_comment_open == <<"<","!","-","-">>
L_comment_end  == <<"-","-",">">>
L_g_open       == <<"<","g">>
L_g_close      == <<"<","/","g",">">>
L_xmlns_figma  == <<"x","m","l","n","s",":","f","i","g","m","a","=","\"">>
L_id_q         == <<"i","d","=","\"">>
L_fill_eq      == <<"f","i","l","l","=">>
L_fill_current == <<"f","i","l","l","=","\"","c","u","r","r","e","n","t","C","o","l","o","r","\"">>

\* after an opening quote at j - 1: the end of [^"]*" , 0 if no quote closes it
QuotedEnd(s, j) ==
    LET q == FindFrom(s, j, <<"\"">>) IN IF q = 0 THEN 0 ELSE q + 1

\* match at i of <lit>[^"]*" where lit ends with the opening quote
AttrMatchEnd(s, i, lit) ==
    IF StartsAt(s, i, lit) THEN QuotedEnd(s, i + Len(lit)) ELSE 0

ViewBoxMatchEnd(s, i) == AttrMatchEnd(s, i, L_viewBox_eq)
WidthMatchEnd(s, i) == AttrMatchEnd(s, i, L_width_q)
HeightMatchEnd(s, i) == AttrMatchEnd(s, i, L_height_q)

\* [a-zA-Z-]
IsAlphaDash(c) == c \in LowerSet \cup UpperSet \cup {"-"}

\* \s*data-[a-zA-Z-]*="[^"]*"
DataAttrMatchEnd(s, i) ==
    LET j == RunEnd(s, i, IsSpace)
    IN IF ~StartsAt(s, j, L_data) THEN 0
       ELSE LET k == RunEnd(s, j + Len(L_data), IsAlphaDash)
            IN IF StartsAt(s, k, L_eq_quote) THEN QuotedEnd(s, k + 2) ELSE 0

\* <\?xml[^>]*\?>\s*
XmlDeclMatchEnd(s, i) ==
    IF ~StartsAt(s, i, L_xml_open) THEN 0
    ELSE LET p == FindFrom(s, i + Len(L_xml_open), <<">">>)
         IN IF p > i + Len(L_xml_open) /\ s[p - 1] = "?"
            THEN RunEnd(s, p + 1, IsSpace) ELSE 0

\* <!DOCTYPE[^>]*>\s*
DoctypeMatchEnd(s, i) ==
    IF ~StartsAt(s, i, L_doctype) THEN 0
    ELSE LET p == FindFrom(s, i + Len(L_doctype), <<">">>)
         IN IF p > 0 THEN RunEnd(s, p + 1, IsSpace) ELSE 0

\* <!--.*?--> with re.DOTALL
CommentMatchEnd(s, i) ==
    IF ~StartsAt(s, i, L_comment_open) THEN 0
    ELSE LET q == FindFrom(s, i + Len(L_comment_open), L_comment_end)
         IN IF q > 0 THEN q + Len(L_comment_end) ELSE 0

\* <g[^>]*>\s*</g>
EmptyGroupMatchEnd(s, i) ==
    IF ~StartsAt(s, i, L_g_open) THEN 0
    ELSE LET p == FindFrom(s, i + Len(L_g_open), <<">">>)
         IN IF p = 0 THEN 0
            ELSE LET j == RunEnd(s, p + 1, IsSpace)
                 IN IF StartsAt(s, j, L_g_close) THEN j + Len(L_g_close) ELSE 0

\* \s*xmlns:figma="[^"]*"
FigmaNsMatchEnd(s, i) == AttrMatchEnd(s, RunEnd(s, i, IsSpace), L_xmlns_figma)

\* \s*id="[^"]*"
IdMatchEnd(s, i) == AttrMatchEnd(s, RunEnd(s, i, IsSpace), L_id_q)

\* \n\s*\n : \s* is greedy, so the match ends at the last newline of the run
BlankLinesMatchEnd(s, i) ==
    IF ~(i <= Len(s) /\ s[i] = "\n") THEN 0
    ELSE LET j == RunEnd(s, i + 1, IsSpace)
             nl == {q \in (i + 1)..(j - 1) : s[q] = "\n"}
         IN IF nl = {} THEN 0 ELSE (CHOOSE q \in nl : \A r \in nl : q >= r) + 1

\* >\s+<
InterTagMatchEnd(s, i) ==
    IF ~(i <= Len(s) /\ s[i] = ">") THEN 0
    ELSE LET j == RunEnd(s, i + 1, IsSpace)
         IN IF j > i + 1 /\ j <= Len(s) /\ s[j] = "<" THEN j + 1 ELSE 0

\* lines 34-53: viewBox, width and height forced to 24, or injected
SetCanvas(s0) ==
    LET s1 == IF Contains(s0, L_viewBox)
              THEN ReSub(s0, ViewBoxMatchEnd, L_viewBox_24)
              ELSE Replace(s0, L_svg_open, L_svg_open \o L_viewBox_24 \o <<" ">>)
        s2 == IF Contains(s1, L_width_eq)
              THEN ReSub(s1, WidthMatchEnd, L_width_24)
              ELSE Replace(s1, L_svg_open, L_svg_open \o L_width_24 \o <<" ">>)
    IN IF Contains(s2, L_height_eq)
       THEN ReSub(s2, HeightMatchEnd, L_height_24)
       ELSE Replace(s2, L_svg_open, L_svg_open \o L_height_24 \o <<" ">>)

\* lines 55-81: the removals, the whitespace clean-up and strip()
Clean(s2) ==
    LET s3 == ReSub(s2, DataAttrMatchEnd, <<>>)
        s4 == ReSub(s3, XmlDeclMatchEnd, <<>>)
        s5 == ReSub(s4, DoctypeMatchEnd, <<>>)
        s6 == ReSub(s5, CommentMatchEnd, <<>>)
        s7 == ReSub(s6, EmptyGroupMatchEnd, <<>>)
        s8 == ReSub(s7, FigmaNsMatchEnd, <<>>)
        s9 == ReSub(s8, IdMatchEnd, <<>>)
        s10 == ReSub(s9, BlankLinesMatchEnd, <<"\n">>)
        s11 == ReSub(s10, InterTagMatchEnd, <<">", "<">>)
    IN Strip(s11, IsSpace)

\* lines 83-85: the default fill, if no fill= is left in the text
DefaultFill(s) ==
    IF ~Contains(s, L_fill_eq)
    THEN Replace(s, L_svg_open, L_svg_open \o L_fill_current \o <<" ">>)
    ELSE s

optimize_svg(svg) == DefaultFill(Clean(SetCanvas(svg)))

-----------------------------------------------------------------------------
(* optimize_svg.py: process_icon_file                                       *)

L_svg_marker == <<"<","s","v","g">>
L_dot_svg == <<".","s","v","g">>
L_Outlined_svg == <<"O","u","t","l","i","n","e","d",".","s","v","g">>

FileNotFoundError == "FileNotFoundError"
NotAFileError == "ValueError: Input path is not a file"
EncodingError == "IOError: Failed to read file (encoding error)"
InvalidSvgError == "ValueError: File does not appear to be a valid SVG"
WriteError == "IOError: Failed to write output file"

\* Path(input_path).stem for a path of one component: the name without its
\* last suffix (a dot that is neither the first nor the last character)
Stem(file_name) ==
    LET dots == {i \in 1..Len(file_name) : file_name[i] = "."}
        last == IF dots = {} THEN 0 ELSE CHOOSE i \in dots : \A d \in dots : i >= d
    IN IF 1 < last /\ last < Len(file_name)
       THEN SubSeq(file_name, 1, last - 1) ELSE file_name

\* a validation that forgets .lower()
IsValidSvg_CaseSensitive(text) == Contains(text, L_svg_marker)

\* line 184, negated: '<svg' in content.lower()
IsValidSvg(text) == Contains(Lower(text), L_svg_marker)

\* a choice that ignores the detected variant
IsOutlined_ForceOnly(force, auto_outlined) == force = "True"

\* line 192: force_outlined if force_outlined is not None else auto_outlined
IsOutlined(force, auto_outlined) ==
    IF force # "None" THEN force = "True" ELSE auto_outlined

\* lines 198-201
OutputName(pascal_name, is_outlined) ==
    IF is_outlined THEN pascal_name \o L_Outlined_svg ELSE pascal_name \o L_dot_svg

\* lines 190-201: the output file's name, from the input file's stem
NameOutput(stem, force) ==
    LET variant == determine_variant(stem)
        base_name == variant[1]
        auto_outlined == variant[2]
        pascal_name == to_pascal_case(base_name)
    IN OutputName(pascal_name, IsOutlined(force, auto_outlined))

-----------------------------------------------------------------------------
(* browse_icons.py: is_icon_node, check_outlined_variant                    *)

T_PAGE == <<"P","A","G","E">>
T_DOCUMENT == <<"D","O","C","U","M","E","N","T">>
T_SECTION == <<"S","E","C","T","I","O","N">>
T_FRAME == <<"F","R","A","M","E">>
T_COMPONENT == <<"C","O","M","P","O","N","E","N","T">>
T_COMPONENT_SET == <<"C","O","M","P","O","N","E","N","T","_","S","E","T">>
T_INSTANCE == <<"I","N","S","T","A","N","C","E">>

\* line 139
ContainerTypes == {T_PAGE, T_DOCUMENT, T_SECTION}
\* line 158
ComponentTypes == {T_COMPONENT, T_COMPONENT_SET, T_INSTANCE}
\* line 160
exclude_patterns ==
    { <<"b","u","t","t","o","n">>, <<"i","n","p","u","t">>, <<"c","a","r","d">>,
      <<"m","o","d","a","l">>, <<"d","i","a","l","o","g">>, <<"f","o","r","m">> }

\* re.search of ^<word>[-_]
PrefixSearch(s, word) ==
    StartsAt(s, 1, word) /\ Len(s) > Len(word) /\ IsDashUnderscore(s[Len(word) + 1])

\* re.search of [-_]<word>$
DelimitedSuffixSearch(s, word) ==
    \E i \in 1..Len(s) :
        /\ IsDashUnderscore(s[i])
        /\ StartsAt(s, i + 1, word)
        /\ AtDollar(s, i + 1 + Len(word))

\* re.search of ^\d+[-_]
NumberedSearch(s) ==
    LET j == RunEnd(s, 1, IsDigit)
    IN j > 1 /\ j <= Len(s) /\ IsDashUnderscore(s[j])

\* lines 143-155: some pattern of icon_patterns matches lower_name
IconPatternSearch(lower_name) ==
    \/ PrefixSearch(lower_name, <<"i","c","o","n">>)
    \/ DelimitedSuffixSearch(lower_name, <<"i","c","o","n">>)
    \/ PrefixSearch(lower_name, <<"i","c">>)
    \/ DelimitedSuffixSearch(lower_name, <<"i","c">>)
    \/ NumberedSearch(lower_name)

\* lines 158-162
LikelyIconComponent(lower_name, n_type) ==
    /\ Upper(n_type) \in ComponentTypes
    /\ ~\E p \in exclude_patterns : Contains(lower_name, p)

\* a classifier that wants the pattern and the component type together
is_icon_node_Both(n_name, n_type) ==
    /\ Upper(n_type) \notin ContainerTypes
    /\ IconPatternSearch(Lower(n_name))
    /\ LikelyIconComponent(Lower(n_name), n_type)

\* is_icon_node(name, node_type) for a name and a node_type that are str
is_icon_node(n_name, n_type) ==
    IF Upper(n_type) \in ContainerTypes THEN FALSE
    ELSE \/ IconPatternSearch(Lower(n_name))
         \/ LikelyIconComponent(Lower(n_name), n_type)

\* re.search of [-_\s]<word>$
SpacedSuffixSearch(s, word) ==
    \E i \in 1..Len(s) :
        /\ IsDelim(s[i])
        /\ StartsAt(s, i + 1, word)
        /\ AtDollar(s, i + 1 + Len(word))

\* check_outlined_variant(name)
check_outlined_variant(n_name) ==
    LET lower_name == Lower(n_name)
    IN \/ SpacedSuffixSearch(lower_name, <<"o","u","t","l","i","n","e","d">>)
       \/ SpacedSuffixSearch(lower_name, <<"o","u","t","l","i","n","e">>)
       \/ SpacedSuffixSearch(lower_name, <<"l","i","n","e">>)
       \/ SpacedSuffixSearch(lower_name, <<"s","t","r","o","k","e">>)
       \/ (StartsAt(lower_name, 1, <<"o","u","t","l","i","n","e">>)
           /\ Len(lower_name) > 7 /\ IsDelim(lower_name[8]))

-----------------------------------------------------------------------------
(* browse_icons.py: the values json.loads returns                           *)
(*                                                                         *)
(* A decoded value is a record of its kind k and its content v: the text   *)
(* of a str, the digits of an int, the items of a list, the <<key, value>> *)
(* pairs of a dict in the order they were read. A Python str made by the   *)
(* scripts themselves is a JStr too.                                       *)

JStr(s) == [k |-> "str", v |-> s]
JNum(digits) == [k |-> "num", v |-> digits]
JBool(b) == [k |-> "bool", v |-> IF b THEN <<"T","r","u","e">> ELSE <<"F","a","l","s","e">>]
JNull == [k |-> "null", v |-> <<"N","o","n","e">>]
JArr(items) == [k |-> "arr", v |-> items]
JObj(pairs) == [k |-> "obj", v |-> pairs]

K_name == <<"n","a","m","e">>
K_type == <<"t","y","p","e">>
K_id == <<"i","d">>
K_children == <<"c","h","i","l","d","r","e","n">>

\* dict.get(key, default): the value read last under the key
Get(obj, key, default) ==
    LET at == {i \in 1..Len(obj.v) : obj.v[i][1] = key}
    IN IF at = {} THEN default
       ELSE obj.v[CHOOSE i \in at : \A j \in at : i >= j][2]

\* bool(value), the test of "if path"
Truthy(val) ==
    CASE val.k = "num" -> \E i \in 1..Len(val.v) : val.v[i] # "0"
      [] val.k = "bool" -> val.v = JBool(TRUE).v
      [] val.k = "null" -> FALSE
      [] OTHER -> val.v # <<>>

\* the text an f-string makes of a value; a list or a dict, whose repr the
\* bounded texts never need, is shown as a mark
Format(val) ==
    IF val.k \in {"arr", "obj"} THEN << "repr" >> ELSE val.v

-----------------------------------------------------------------------------
(* json.loads, for texts without backslash escapes, signs, fractions or    *)
(* exponents: objects, arrays, strings, unsigned integers, true, false and *)
(* null, with the whitespace JSON allows between them                      *)

CharAt(s, i) == IF 1 <= i /\ i <= Len(s) THEN s[i] ELSE ""

DecodeError == [ok |-> FALSE, val |-> JNull, end |-> 0]
Decoded(val, end) == [ok |-> TRUE, val |-> val, end |-> end]

SkipWs(s, i) == RunEnd(s, i, IsSpace)

\* the characters below U+0020, which a JSON string may not hold
IsControl(c) == c \in {"\n", "\t", "\r"}

\* a string whose opening quote is at i: it runs to the next quote, and a
\* control character before that quote is an error
ScanString(s, i) ==
    LET stops == {q \in (i + 1)..Len(s) : s[q] = "\"" \/ IsControl(s[q])}
        q == IF stops = {} THEN 0 ELSE CHOOSE x \in stops : \A y \in stops : x <= y
    IN IF q # 0 /\ s[q] = "\"" THEN Decoded(JStr(Slice(s, i + 1, q)), q + 1)
       ELSE DecodeError

RECURSIVE ScanValue(_, _), ScanElements(_, _, _), ScanMembers(_, _, _)

\* the value that starts at i
ScanValue(s, i) ==
    LET c == CharAt(s, i)
    IN CASE c = "\"" -> ScanString(s, i)
         [] c = "{" ->
              LET j == SkipWs(s, i + 1)
              IN IF CharAt(s, j) = "}" THEN Decoded(JObj(<<>>), j + 1)
                 ELSE ScanMembers(s, j, <<>>)
         [] c = "[" ->
              LET j == SkipWs(s, i + 1)
              IN IF CharAt(s, j) = "]" THEN Decoded(JArr(<<>>), j + 1)
                 ELSE ScanElements(s, j, <<>>)
         [] c = "n" /\ StartsAt(s, i, <<"n","u","l","l">>) -> Decoded(JNull, i + 4)
         [] c = "t" /\ StartsAt(s, i, <<"t","r","u","e">>) -> Decoded(JBool(TRUE), i + 4)
         [] c = "f" /\ StartsAt(s, i, <<"f","a","l","s","e">>) -> Decoded(JBool(FALSE), i + 5)
         [] c = "0" -> Decoded(JNum(<<"0">>), i + 1)
         [] c \in DigitSet \ {"0"} ->
              LET e == RunEnd(s, i, IsDigit) IN Decoded(JNum(Slice(s, i, e)), e)
         [] OTHER -> DecodeError

\* the items of an array from the item at i on, items holding those read
ScanElements(s, i, items) ==
    LET item == ScanValue(s, i)
    IN IF ~item.ok THEN DecodeError
       ELSE LET j == SkipWs(s, item.end)
                read == Append(items, item.val)
            IN CASE CharAt(s, j) = "]" -> Decoded(JArr(read), j + 1)
                 [] CharAt(s, j) = "," -> ScanElements(s, SkipWs(s, j + 1), read)
                 [] OTHER -> DecodeError

\* the members of an object from the key at i on, pairs holding those read
ScanMembers(s, i, pairs) ==
    IF CharAt(s, i) # "\"" THEN DecodeError
    ELSE LET key == ScanString(s, i)
         IN IF ~key.ok THEN DecodeError
            ELSE LET j == SkipWs(s, key.end)
                 IN IF CharAt(s, j) # ":" THEN DecodeError
                    ELSE LET member == ScanValue(s, SkipWs(s, j + 1))
                         IN IF ~member.ok THEN DecodeError
                            ELSE LET m == SkipWs(s, member.end)
                                     read == Append(pairs, <<key.val.v, member.val>>)
                                 IN CASE CharAt(s, m) = "}" -> Decoded(JObj(read), m + 1)
                                      [] CharAt(s, m) = "," ->
                                           ScanMembers(s, SkipWs(s, m + 1), read)
                                      [] OTHER -> DecodeError

\* json.loads(content): DecodeError stands for json.JSONDecodeError
json_loads(s) ==
    LET top == ScanValue(s, SkipWs(s, 1))
    IN IF top.ok /\ SkipWs(s, top.end) = Len(s) + 1 THEN top ELSE DecodeError

-----------------------------------------------------------------------------
(* browse_icons.py: parse_json_metadata                                     *)

\* line 75
SectionTypes == {T_PAGE, T_FRAME, T_SECTION}

\* the result of a call: the list returned, or the exception that left it
Returned(list) == [raised |-> NotRaised, icons |-> list]
Raised(e) == [raised |-> e, icons |-> <<>>]

IconInfo(n_name, n_id, n_section, outlined, n_path) ==
    [name |-> n_name, node_id |-> n_id, section |-> n_section,
     is_outlined |-> outlined, path |-> n_path]

\* is_icon_node on decoded values: "True", "False", or the AttributeError
\* of .upper() or .lower() on a value that is no str
IsIconNodeOf(n_name, n_type) ==
    IF n_type.k # "str" THEN "AttributeError"
    ELSE IF Upper(n_type.v) \in ContainerTypes THEN "False"
    ELSE IF n_name.k # "str" THEN "AttributeError"
    ELSE IF is_icon_node(n_name.v, n_type.v) THEN "True" ELSE "False"

\* lines 74-76
CurrentSection(section, n_name, n_type) ==
    IF n_type.k = "str" /\ n_type.v \in SectionTypes THEN n_name ELSE section

\* a path that forgets the prefix
CurrentPath_NameOnly(path, n_name) == n_name

\* line 78
CurrentPath(path, n_name) ==
    IF Truthy(path) THEN JStr(Format(path) \o <<"/">> \o Format(n_name)) ELSE n_name

\* what "for child in children" iterates over: the items of a list, the
\* characters of a str, the keys of a dict; ok FALSE when the value is not
\* iterable (TypeError)
Iterated(children) ==
    CASE children.k = "arr" -> [ok |-> TRUE, items |-> children.v]
      [] children.k = "str" ->
           [ok |-> TRUE, items |-> [i \in 1..Len(children.v) |-> JStr(<<children.v[i]>>)]]
      [] children.k = "obj" ->
           [ok |-> TRUE, items |-> [i \in 1..Len(children.v) |-> JStr(children.v[i][1])]]
      [] OTHER -> [ok |-> FALSE, items |-> <<>>]

RECURSIVE parse_json_metadata(_, _, _), ParseChildren(_, _, _, _)

parse_json_metadata(data, path, section) ==
    IF data.k # "obj" THEN Returned(<<>>)
    ELSE LET n_name == Get(data, K_name, JStr(<<>>))
             n_type == Get(data, K_type, JStr(<<>>))
             n_id == Get(data, K_id, JStr(<<>>))
             current_section == CurrentSection(section, n_name, n_type)
             current_path == CurrentPath(path, n_name)
             is_icon_result == IsIconNodeOf(n_name, n_type)
         IN IF is_icon_result \notin {"True", "False"} THEN Raised(is_icon_result)
            ELSE LET own == IF is_icon_result = "True"
                            THEN << IconInfo(n_name, n_id, current_section,
                                             check_outlined_variant(n_name.v),
                                             current_path) >>
                            ELSE <<>>
                     children == Iterated(Get(data, K_children, JArr(<<>>)))
                 IN IF ~children.ok THEN Raised("TypeError")
                    ELSE ParseChildren(children.items, current_path,
                                       current_section, own)

\* lines 93-94: the loop over the children from the first of children on,
\* list holding the records found so far; an exception in a child leaves
\* the loop and the call
ParseChildren(children, current_path, current_section, list) ==
    IF children = <<>> THEN Returned(list)
    ELSE LET found == parse_json_metadata(Head(children), current_path, current_section)
         IN IF found.raised # NotRaised THEN found
            ELSE ParseChildren(Tail(children), current_path, current_section,
                               list \o found.icons)

-----------------------------------------------------------------------------
(* browse_icons.py: parse_xml_metadata                                      *)

L_name_q == <<"n","a","m","e","=","\"">>

\* the positions at which \s+<lit>([^"]+)" can start its literal, lit
\* ending with the opening quote, after [^>]* has run from position from:
\* whitespace before it, no ">" since from, a non-empty value and its
\* closing quote after it
AttrStarts(s, from, lit) ==
    {n \in (from + 1)..Len(s) :
        /\ IsSpace(s[n - 1])
        /\ \A x \in from..(n - 1) : s[x] # ">"
        /\ StartsAtI(s, n, lit)
        /\ QuotedEnd(s, n + Len(lit)) > n + Len(lit) + 1}

Largest(S) == CHOOSE x \in S : \A y \in S : x >= y

\* the match of node_pattern at i, ok FALSE if there is none: both [^>]*
\* are greedy, so the last name attribute that an id attribute follows is
\* taken, and after it the last id attribute
NodeMatch(s, i) ==
    LET no_match == [ok |-> FALSE, n_type |-> <<>>, n_name |-> <<>>, n_id |-> <<>>, end |-> 0]
        w == RunEnd(s, i + 1, IsWord)
        names == {n \in AttrStarts(s, w, L_name_q) :
                     AttrStarts(s, QuotedEnd(s, n + Len(L_name_q)), L_id_q) # {}}
    IN IF CharAt(s, i) # "<" \/ w = i + 1 \/ names = {} THEN no_match
       ELSE LET n == Largest(names)
                name_end == QuotedEnd(s, n + Len(L_name_q))
                m == Largest(AttrStarts(s, name_end, L_id_q))
                id_end == QuotedEnd(s, m + Len(L_id_q))
            IN [ok |-> TRUE,
                n_type |-> Slice(s, i + 1, w),
                n_name |-> Slice(s, n + Len(L_name_q), name_end - 1),
                n_id |-> Slice(s, m + Len(L_id_q), id_end - 1),
                end |-> id_end]

NodeMatchEnd(s, i) == NodeMatch(s, i).end

\* a path that leaves the slash out when there is no section
XmlPath_NoLeadingSlash(current_section, n_name) ==
    IF current_section = <<>> THEN n_name ELSE current_section \o <<"/">> \o n_name

\* line 130
XmlPath(current_section, n_name) == current_section \o <<"/">> \o n_name

RECURSIVE XmlScan(_, _, _)
\* lines 112-131: the loop over node_pattern.finditer(content), from
\* position i on, with the section current there
XmlScan(s, i, current_section) ==
    LET at == NextMatch(s, i, NodeMatchEnd)
    IN IF at = 0 THEN <<>>
       ELSE LET node == NodeMatch(s, at)
            IN IF Upper(node.n_type) \in SectionTypes
               THEN XmlScan(s, node.end, node.n_name)
               ELSE IF is_icon_node(node.n_name, node.n_type)
               THEN << IconInfo(JStr(node.n_name), JStr(node.n_id),
                                JStr(current_section),
                                check_outlined_variant(node.n_name),
                                JStr(XmlPath(current_section, node.n_name))) >>
                    \o XmlScan(s, node.end, current_section)
               ELSE XmlScan(s, node.end, current_section)

parse_xml_metadata(s) == XmlScan(s, 1, <<>>)

-----------------------------------------------------------------------------
(* browse_icons.py: parse_figma_metadata                                    *)

parse_figma_metadata(s) ==
    LET data == json_loads(s)
    IN IF data.ok THEN parse_json_metadata(data.val, JStr(<<>>), JStr(<<>>))
       ELSE Returned(parse_xml_metadata(s))

-----------------------------------------------------------------------------
(* Bounds of the name runs                                                  *)

MaxNameFrags == 4

NameFrags == { <<"a">>, <<"B">>, <<"-">>, <<".","s","v","g">>, <<" ">>, <<"\n">> }

RECURSIVE FragTexts(_, _)
\* the texts made of at most n fragments of frags
FragTexts(frags, n) ==
    IF n = 0 THEN { <<>> }
    ELSE LET shorter == FragTexts(frags, n - 1)
         IN shorter \cup { t \o f : t \in shorter, f \in frags }

-----------------------------------------------------------------------------
(* to_pascal_case applied once and twice                                    *)

\* the variables of the runs a specification does not make
IdleName == name = None /\ pascal_once = None /\ pascal_twice = None
IdleSvg == svg_content = None /\ optimized_once = None /\ optimized_twice = None
IdleProc ==
    /\ input_path = None /\ force_outlined = "None" /\ file_text = None
    /\ content = None /\ optimized = None /\ output_name = None
    /\ written = <<>> /\ dir_made = FALSE /\ raised = NotRaised

IdleIcon == node_name = None /\ node_type = None /\ is_icon = "pending"

\* the parser has not been called
Pending == [raised |-> "pending", icons |-> <<>>]
IdleMeta == tree = <<>> /\ metadata = None /\ parsed = Pending

\* determine_variant has not returned
NoVariant == << None, FALSE >>
IdleVariant == variant_name = None /\ variant_found = NoVariant

InitName ==
    /\ pc = "name_call"
    /\ name \in FragTexts(NameFrags, MaxNameFrags)
    /\ pascal_once = None
    /\ pascal_twice = None
    /\ IdleSvg /\ IdleProc /\ IdleIcon /\ IdleMeta /\ IdleVariant

ToPascalCase ==
    /\ pc = "name_call"
    /\ pascal_once' = to_pascal_case(name)
    /\ pc' = "name_once"
    /\ UNCHANGED <<name, pascal_twice, svgVars, procVars, iconVars, metaVars, variantVars>>

ToPascalCaseAgain ==
    /\ pc = "name_once"
    /\ pascal_twice' = to_pascal_case(pascal_once)
    /\ pc' = "name_twice"
    /\ UNCHANGED <<name, pascal_once, svgVars, procVars, iconVars, metaVars, variantVars>>

NextName == ToPascalCase \/ ToPascalCaseAgain

SpecName == InitName /\ [][NextName]_vars

-----------------------------------------------------------------------------
(* optimize_svg applied once and twice                                      *)

MaxSvgFrags == 4

SvgFrags ==
    { L_svg_open,
      <<"<","s","v","g",">">>,
      <<"<","S","V","G"," ">>,
      <<"<","g",">">>,
      L_g_close,
      <<" ">>,
      <<"\n">>,
      L_comment_open,
      L_comment_end,
      <<"f","i","l","l","=","\"","x","\"">> }

InitSvg ==
    /\ pc = "svg_call"
    /\ svg_content \in FragTexts(SvgFrags, MaxSvgFrags)
    /\ optimized_once = None
    /\ optimized_twice = None
    /\ IdleName /\ IdleProc /\ IdleIcon /\ IdleMeta /\ IdleVariant

OptimizeSvg ==
    /\ pc = "svg_call"
    /\ optimized_once' = optimize_svg(svg_content)
    /\ pc' = "svg_once"
    /\ UNCHANGED <<svg_content, optimized_twice, nameVars, procVars, iconVars, metaVars, variantVars>>

OptimizeSvgAgain ==
    /\ pc = "svg_once"
    /\ optimized_twice' = optimize_svg(optimized_once)
    /\ pc' = "svg_twice"
    /\ UNCHANGED <<svg_content, optimized_once, nameVars, procVars, iconVars, metaVars, variantVars>>

NextSvg == OptimizeSvg \/ OptimizeSvgAgain

SpecSvg == InitSvg /\ [][NextSvg]_vars

-----------------------------------------------------------------------------
(* process_icon_file, statement by statement                                *)

MaxContentFrags == 3

ContentFrags ==
    { L_svg_open,
      <<"<","S","v","G",">">>,
      <<"<","s">>,
      <<"V","g">>,
      <<"<","g",">">>,
      <<"\n">> }

InputPaths ==
    { <<"H","o","m","e","-","O","u","t","l","i","n","e","d",".","s","v","g">>,
      <<"H","o","m","e","-","O","u","t","l","i","n","e","d">>,
      <<"h","o","m","e",".","s","v","g">>,
      <<"a","B","_","l","i","n","e",".","x",".","S","V","G">>,
      <<".","s","v","g">> }

InitProc ==
    /\ pc = "proc_call"
    /\ input_path \in InputPaths
    /\ force_outlined \in ForceValues
    /\ file_text \in FragTexts(ContentFrags, MaxContentFrags)
    /\ content = None /\ optimized = None /\ output_name = None
    /\ written = <<>> /\ dir_made = FALSE /\ raised = NotRaised
    /\ IdleName /\ IdleSvg /\ IdleIcon /\ IdleMeta /\ IdleVariant

Raise(e) == raised' = e /\ pc' = "proc_raised"

\* lines 171-172: path.exists()
CheckExists ==
    /\ pc = "proc_call"
    /\ \E exists \in BOOLEAN :
          IF exists THEN pc' = "proc_exists" /\ UNCHANGED raised
          ELSE Raise(FileNotFoundError)
    /\ UNCHANGED <<input_path, force_outlined, file_text, content, optimized,
                   output_name, written, dir_made, nameVars, svgVars, iconVars, metaVars, variantVars>>

\* lines 174-175: path.is_file()
CheckIsFile ==
    /\ pc = "proc_exists"
    /\ \E is_file \in BOOLEAN :
          IF is_file THEN pc' = "proc_is_file" /\ UNCHANGED raised
          ELSE Raise(NotAFileError)
    /\ UNCHANGED <<input_path, force_outlined, file_text, content, optimized,
                   output_name, written, dir_made, nameVars, svgVars, iconVars, metaVars, variantVars>>

\* lines 178-181: path.read_text(encoding='utf-8')
ReadText ==
    /\ pc = "proc_is_file"
    /\ \E decodes \in BOOLEAN :
          IF decodes
          THEN content' = file_text /\ pc' = "proc_read" /\ UNCHANGED raised
          ELSE Raise(EncodingError) /\ UNCHANGED content
    /\ UNCHANGED <<input_path, force_outlined, file_text, optimized,
                   output_name, written, dir_made, nameVars, svgVars, iconVars, metaVars, variantVars>>

\* lines 184-185: basic SVG validation
Validate ==
    /\ pc = "proc_read"
    /\ IF IsValidSvg(content)
       THEN pc' = "proc_valid" /\ UNCHANGED raised
       ELSE Raise(InvalidSvgError)
    /\ UNCHANGED <<input_path, force_outlined, file_text, content, optimized,
                   output_name, written, dir_made, nameVars, svgVars, iconVars, metaVars, variantVars>>

\* line 188
Optimize ==
    /\ pc = "proc_valid"
    /\ optimized' = optimize_svg(content)
    /\ pc' = "proc_optimized"
    /\ UNCHANGED <<input_path, force_outlined, file_text, content,
                   output_name, written, dir_made, raised, nameVars, svgVars, iconVars, metaVars, variantVars>>

\* lines 191-201
Naming ==
    /\ pc = "proc_optimized"
    /\ output_name' = NameOutput(Stem(input_path), force_outlined)
    /\ pc' = "proc_named"
    /\ UNCHANGED <<input_path, force_outlined, file_text, content, optimized,
                   written, dir_made, raised, nameVars, svgVars, iconVars, metaVars, variantVars>>

\* lines 204-211: mkdir, write_text, return; an OSError of either becomes
\* an IOError
WriteOutput ==
    /\ pc = "proc_named"
    /\ \E mkdir_ok \in BOOLEAN, write_ok \in BOOLEAN :
          /\ dir_made' = mkdir_ok
          /\ IF mkdir_ok /\ write_ok
             THEN /\ written' = Append(written, <<output_name, optimized>>)
                  /\ pc' = "proc_returned"
                  /\ UNCHANGED raised
             ELSE Raise(WriteError) /\ UNCHANGED written
    /\ UNCHANGED <<input_path, force_outlined, file_text, content, optimized,
                   output_name, nameVars, svgVars, iconVars, metaVars, variantVars>>

NextProc ==
    \/ CheckExists \/ CheckIsFile \/ ReadText \/ Validate
    \/ Optimize \/ Naming \/ WriteOutput

SpecProc == InitProc /\ [][NextProc]_vars

-----------------------------------------------------------------------------
(* is_icon_node applied to a name and a node type                           *)

MaxIconFrags == 4

IconNameFrags ==
    { <<"i","c">>, <<"O","N">>, <<"-">>, <<"_">>, <<"2">>, <<"a">>,
      <<"f","o","r","m">>, <<"\n">> }

IconNodeTypes ==
    { T_PAGE, <<"s","e","c","t","i","o","n">>, <<"D","o","c","u","m","e","n","t">>,
      T_COMPONENT, <<"i","n","s","t","a","n","c","e">>, T_COMPONENT_SET,
      T_FRAME, <<"G","R","O","U","P">>, <<>> }

InitIcon ==
    /\ pc = "icon_call"
    /\ node_name \in FragTexts(IconNameFrags, MaxIconFrags)
    /\ node_type \in IconNodeTypes
    /\ is_icon = "pending"
    /\ IdleName /\ IdleSvg /\ IdleProc /\ IdleMeta /\ IdleVariant

IsIconNode ==
    /\ pc = "icon_call"
    /\ is_icon' = IF is_icon_node(node_name, node_type) THEN "True" ELSE "False"
    /\ pc' = "icon_done"
    /\ UNCHANGED <<node_name, node_type, nameVars, svgVars, procVars, metaVars, variantVars>>

NextIcon == IsIconNode

SpecIcon == InitIcon /\ [][NextIcon]_vars

-----------------------------------------------------------------------------
(* parse_xml_metadata applied to a text                                     *)

MaxXmlFrags == 4

\* whole elements, and the pieces of an element: its tag, a name attribute,
\* an id attribute, its end
XmlFrags ==
    { <<"<","C","O","M","P","O","N","E","N","T"," ","n","a","m","e","=","\"","i","c","-","a","\""," ","i","d","=","\"","1","\"",">">>,
      <<"<","F","R","A","M","E"," ","n","a","m","e","=","\"","F","\""," ","i","d","=","\"","2","\"",">">>,
      <<"<","p","a","g","e">>,
      <<" ","n","a","m","e","=","\"","P","\"">>,
      <<" ","i","d","=","\"","3","\"">>,
      <<">">>,
      <<"\n">>,
      <<"<","I","N","S","T","A","N","C","E"," ","n","a","m","e","=","\"","c","a","r","d","\""," ","i","d","=","\"","4","\"",">">> }

InitXml ==
    /\ pc = "xml_call"
    /\ tree = <<>>
    /\ metadata \in FragTexts(XmlFrags, MaxXmlFrags)
    /\ parsed = Pending
    /\ IdleName /\ IdleSvg /\ IdleProc /\ IdleIcon /\ IdleVariant

ParseXmlMetadata ==
    /\ pc = "xml_call"
    /\ parsed' = Returned(parse_xml_metadata(metadata))
    /\ pc' = "xml_done"
    /\ UNCHANGED <<tree, metadata, nameVars, svgVars, procVars, iconVars, variantVars>>

NextXml == ParseXmlMetadata

SpecXml == InitXml /\ [][NextXml]_vars

-----------------------------------------------------------------------------
(* parse_json_metadata applied to a tree of dict nodes                      *)

MaxNodes == 4

TreeNames == { <<"i","c","-","a">>, <<"b">> }
TreeTypes == { T_PAGE, T_FRAME, <<"G","R","O","U","P">> }

\* the parents of the n nodes of a tree: node 1 is the root, the parent of
\* a later node is an earlier node, and the children of a node are listed
\* in index order
ParentMaps(n) ==
    {p \in [1..n -> 0..(n - 1)] : p[1] = 0 /\ \A i \in 2..n : p[i] \in 1..(i - 1)}

\* the id of node i
IdOf(i) == << <<"1","2","3","4","5","6","7","8","9">>[i] >>

\* the indices of the children of node i, in their listed order
ChildrenOf(t, i) ==
    SelectSeq([j \in 1..Len(t) |-> j], LAMBDA j : t[j].parent = i)

RECURSIVE ToJson(_, _)
\* the dict of node i: name, type, id and, unless it is a leaf, children
ToJson(t, i) ==
    LET kids == ChildrenOf(t, i)
        own == << <<K_name, JStr(t[i].name)>>, <<K_type, JStr(t[i].type)>>,
                  <<K_id, JStr(IdOf(i))>> >>
    IN IF kids = <<>> THEN JObj(own)
       ELSE JObj(Append(own, <<K_children,
                                JArr([k \in 1..Len(kids) |-> ToJson(t, kids[k])])>>))

InitTree ==
    /\ pc = "tree_call"
    /\ \E n \in 1..MaxNodes :
          \E names \in [1..n -> TreeNames], types \in [1..n -> TreeTypes],
             parents \in ParentMaps(n) :
              tree = [i \in 1..n |-> [name |-> names[i], type |-> types[i],
                                      parent |-> parents[i]]]
    /\ metadata = None
    /\ parsed = Pending
    /\ IdleName /\ IdleSvg /\ IdleProc /\ IdleIcon /\ IdleVariant

\* parse_json_metadata(data) with the default path and section
ParseJsonMetadata ==
    /\ pc = "tree_call"
    /\ parsed' = parse_json_metadata(ToJson(tree, 1), JStr(<<>>), JStr(<<>>))
    /\ pc' = "tree_done"
    /\ UNCHANGED <<tree, metadata, nameVars, svgVars, procVars, iconVars, variantVars>>

NextTree == ParseJsonMetadata

SpecTree == InitTree /\ [][NextTree]_vars

-----------------------------------------------------------------------------
(* parse_figma_metadata applied to a text                                   *)

MaxParseFrags == 4

\* the pieces of a JSON object, fields of the wrong kind among them, an
\* XML element, and the two halves of a JSON array of strings
ParseFrags ==
    { <<"{">>,
      <<"}">>,
      <<"\"","n","a","m","e","\"",":","\"","i","c","-","a","\"">>,
      <<"\"","t","y","p","e","\"",":","\"","C","O","M","P","O","N","E","N","T","\"">>,
      <<"\"","c","h","i","l","d","r","e","n","\"",":">>,
      <<"5">>,
      <<"\"","t","y","p","e","\"",":","5">>,
      <<"<","C","O","M","P","O","N","E","N","T"," ","n","a","m","e","=","\"","i","c","-","a","\""," ","i","d","=","\"","1","\"",">">>,
      <<"[","\"","<","C","O","M","P","O","N","E","N","T"," ","n","a","m","e","=","\"",",">>,
      <<"\""," ","i","d","=","\"",",","\"","x","\"","]">> }

InitParse ==
    /\ pc = "parse_call"
    /\ tree = <<>>
    /\ metadata \in FragTexts(ParseFrags, MaxParseFrags)
    /\ parsed = Pending
    /\ IdleName /\ IdleSvg /\ IdleProc /\ IdleIcon /\ IdleVariant

ParseFigmaMetadata ==
    /\ pc = "parse_call"
    /\ parsed' = parse_figma_metadata(metadata)
    /\ pc' = "parse_done"
    /\ UNCHANGED <<tree, metadata, nameVars, svgVars, procVars, iconVars, variantVars>>

NextParse == ParseFigmaMetadata

SpecParse == InitParse /\ [][NextParse]_vars

-----------------------------------------------------------------------------
(* determine_variant applied to a name                                      *)

MaxVariantFrags == 4

VariantFrags ==
    { <<"-">>,
      <<"_">>,
      <<"a">>,
      <<"L","i","n","e">>,
      <<"o","u","t","l","i","n","e">>,
      <<"d">>,
      <<"s","t","r","o","k","e">>,
      <<" ">>,
      <<"\n">> }

InitVariant ==
    /\ pc = "variant_call"
    /\ variant_name \in FragTexts(VariantFrags, MaxVariantFrags)
    /\ variant_found = NoVariant
    /\ IdleName /\ IdleSvg /\ IdleProc /\ IdleIcon /\ IdleMeta

DetermineVariant ==
    /\ pc = "variant_call"
    /\ variant_found' = determine_variant(variant_name)
    /\ pc' = "variant_done"
    /\ UNCHANGED <<variant_name, nameVars, svgVars, procVars, iconVars, metaVars>>

NextVariant == DetermineVariant

SpecVariant == InitVariant /\ [][NextVariant]_vars

-----------------------------------------------------------------------------
(* Claims                                                                   *)

\* C1: optimize_svg is idempotent: a second application leaves the result
\* of the first unchanged.
C1_Idempotent == pc = "svg_twice" => optimized_twice = optimized_once

L_Home_Outlined == <<"H","o","m","e","-","O","u","t","l","i","n","e","d">>
L_Home_svg == <<"H","o","m","e",".","s","v","g">>
L_HomeOutlined_svg ==
    <<"H","o","m","e","O","u","t","l","i","n","e","d",".","s","v","g">>

\* a run of process_icon_file on a valid document whose file stem is
\* "Home-Outlined", with no variant override, that has returned
HomeOutlinedRun ==
    /\ pc = "proc_returned"
    /\ Stem(input_path) = L_Home_Outlined
    /\ force_outlined = "None"

\* C3, as claimed: the output file of such a run is named "Home.svg".
C3_AsClaimed == HomeOutlinedRun => output_name = L_Home_svg

\* C3, amended: process_icon_file on a valid document whose file stem is
\* "Home-Outlined", with no variant override, names its output file
\* "HomeOutlined.svg" and writes the optimized text under that name.
C3_HomeOutlined ==
    HomeOutlinedRun =>
        /\ output_name = L_HomeOutlined_svg
        /\ written = << <<L_HomeOutlined_svg, optimized>> >>

C3_Witness == HomeOutlinedRun /\ input_path # L_Home_Outlined

\* "<svg" occurs in the text, letter case ignored
HasSvgMarkerAnyCase(text) ==
    \E i \in 1..(Len(text) - 3) :
        /\ text[i] = "<"
        /\ text[i + 1] \in {"s", "S"}
        /\ text[i + 2] \in {"v", "V"}
        /\ text[i + 3] \in {"g", "G"}

\* C4: process_icon_file raises the invalid-document error exactly when the
\* text read has no "<svg" (letter case ignored), and raises it before
\* optimize_svg is applied and before the output directory or file is made.
C4_FailFast ==
    /\ raised = InvalidSvgError =>
          (/\ ~HasSvgMarkerAnyCase(content)
           /\ optimized = None /\ output_name = None
           /\ written = <<>> /\ ~dir_made)
    /\ (content # None /\ pc # "proc_read" /\ ~HasSvgMarkerAnyCase(content)) =>
          raised = InvalidSvgError
    /\ (optimized # None \/ output_name # None \/ written # <<>> \/ dir_made) =>
          HasSvgMarkerAnyCase(content)

C4_Witness ==
    /\ raised = InvalidSvgError
    /\ Contains(content, <<"<","s">>)
    /\ Contains(content, <<"V","g">>)

L_width == <<"w","i","d","t","h">>
L_height == <<"h","e","i","g","h","t">>

\* C5: a document with a vector-root opening tag and no viewBox, width or
\* height comes out of optimize_svg with viewBox="0 0 24 24", width="24"
\* and height="24".
C5_CanvasInjected ==
    (/\ pc = "svg_once"
     /\ HasSvgMarkerAnyCase(svg_content)
     /\ ~Contains(svg_content, L_viewBox)
     /\ ~Contains(svg_content, L_width)
     /\ ~Contains(svg_content, L_height)) =>
        /\ Contains(optimized_once, L_viewBox_24)
        /\ Contains(optimized_once, L_width_24)
        /\ Contains(optimized_once, L_height_24)

\* optimize_svg's last step put the default fill into the text
DefaultFillInjected(svg) == optimize_svg(svg) # Clean(SetCanvas(svg))

\* C6: optimize_svg injects fill="currentColor" if and only if its input
\* held no fill declaration anywhere (stated for the documents that have a
\* root tag "<svg " to carry the default).
C6_DefaultFillIff ==
    (pc = "svg_once" /\ Contains(svg_content, L_svg_open)) =>
        (DefaultFillInjected(svg_content) <=> ~Contains(svg_content, L_fill_eq))

\* the icon patterns as the claim words them, on the lower-cased name;
\* trailing(n, w) says what "n has the trailing token w" means
ClaimedIconPattern(n, trailing(_, _)) ==
    \/ \E w \in { <<"i","c","o","n","-">>, <<"i","c","o","n","_">>,
                  <<"i","c","-">>, <<"i","c","_">> } :
          Len(n) >= Len(w) /\ SubSeq(n, 1, Len(w)) = w
    \/ \E w \in { <<"-","i","c","o","n">>, <<"_","i","c","o","n">>,
                  <<"-","i","c">>, <<"_","i","c">> } : trailing(n, w)
    \/ \E k \in 1..(Len(n) - 1) :
          /\ \A d \in 1..k : n[d] \in DigitSet
          /\ n[k + 1] \in {"-", "_"}

ClaimedIsIcon(n_name, n_type, trailing(_, _)) ==
    LET lowered == Lower(n_name)
    IN IF Lower(n_type) \in {Lower(T_PAGE), Lower(T_DOCUMENT), Lower(T_SECTION)}
       THEN FALSE
       ELSE \/ ClaimedIconPattern(lowered, trailing)
            \/ /\ Lower(n_type) \in
                     {Lower(T_COMPONENT), Lower(T_COMPONENT_SET), Lower(T_INSTANCE)}
               /\ \A i \in 1..Len(lowered) : \A p \in exclude_patterns :
                     ~(i + Len(p) - 1 <= Len(lowered)
                       /\ SubSeq(lowered, i, i + Len(p) - 1) = p)

\* n ends with w
TrailingAtEnd(n, w) ==
    Len(n) >= Len(w) /\ SubSeq(n, Len(n) - Len(w) + 1, Len(n)) = w

\* n ends with w, or with w and one final newline
TrailingAtEndOrFinalNewline(n, w) ==
    \/ TrailingAtEnd(n, w)
    \/ (Len(n) > Len(w) /\ n[Len(n)] = "\n" /\ TrailingAtEnd(SubSeq(n, 1, Len(n) - 1), w))

C2_Idempotent == pc = "name_twice" => pascal_twice = pascal_once

\* the text of a parsed value
Text(val) == val.v

\* C10 as stated: a record emitted while the current section is empty has
\* the element's name alone as its path, without a leading slash; a record
\* emitted after a container element has the path section + "/" + name.
C10_AsClaimed ==
    pc = "xml_done" =>
        \A i \in 1..Len(parsed.icons) :
            LET r == parsed.icons[i]
            IN Text(r.path) = IF Text(r.section) = <<>> THEN Text(r.name)
                              ELSE Text(r.section) \o <<"/">> \o Text(r.name)

\* C10: every record parse_xml_metadata emits has the path
\* section + "/" + name, which is "/" + name, with its leading slash, while
\* the current section is empty.
C10_XmlPath ==
    pc = "xml_done" =>
        \A i \in 1..Len(parsed.icons) :
            LET r == parsed.icons[i]
            IN /\ Text(r.path) = Text(r.section) \o <<"/">> \o Text(r.name)
               /\ Text(r.section) = <<>> => Text(r.path) = <<"/">> \o Text(r.name)

\* a text with an icon before any container and an icon after one
C10_Witness ==
    /\ pc = "xml_done"
    /\ Len(parsed.icons) = 2
    /\ Text(parsed.icons[1].section) = <<>>
    /\ Text(parsed.icons[1].path) = <<"/","i","c","-","a">>
    /\ Text(parsed.icons[2].section) = <<"F">>
    /\ Text(parsed.icons[2].path) = <<"F","/","i","c","-","a">>

RECURSIVE Chain(_)
\* the root-to-node chain of node i of the tree, as indices
Chain(i) == IF i = 0 THEN <<>> ELSE Append(Chain(tree[i].parent), i)

\* node i comes before node j in pre-order, children in listed order: the
\* chain of i is a proper prefix of the chain of j, or is smaller where
\* they first differ
PreOrderBefore(i, j) ==
    LET a == Chain(i)
        b == Chain(j)
    IN \E k \in 1..Len(b) :
          /\ \A x \in 1..(k - 1) : x <= Len(a) /\ a[x] = b[x]
          /\ k > Len(a) \/ a[k] < b[k]

\* the nodes is_icon_node holds for
IconNodes == {i \in 1..Len(tree) : is_icon_node(tree[i].name, tree[i].type)}

\* the name of the nearest PAGE, FRAME or SECTION node on the chain of i,
\* the node itself included, "" if there is none
NearestSection(i) ==
    LET c == Chain(i)
        at == {k \in 1..Len(c) : tree[c[k]].type \in {T_PAGE, T_FRAME, T_SECTION}}
    IN IF at = {} THEN <<>> ELSE tree[c[CHOOSE k \in at : \A m \in at : k >= m]].name

RECURSIVE SlashJoined(_)
\* the names of the chain joined by "/"
SlashJoined(c) ==
    IF Len(c) = 1 THEN tree[c[1]].name
    ELSE SlashJoined(SubSeq(c, 1, Len(c) - 1)) \o <<"/">> \o tree[c[Len(c)]].name

\* C7: for a finite tree of dict nodes with non-empty names,
\* parse_json_metadata with empty path and section returns exactly one
\* record per node is_icon_node holds for, in pre-order with children in
\* their listed order; the section of a record is the name of the nearest
\* PAGE, FRAME or SECTION node on its root-to-node chain, "" if none, and
\* its path the names on that chain joined by "/".
C7_PreOrderRecords ==
    pc = "tree_done" =>
        /\ parsed.raised = NotRaised
        /\ Len(parsed.icons) = Cardinality(IconNodes)
        /\ \A k \in 1..Len(parsed.icons) :
              LET i == CHOOSE n \in IconNodes :
                          Cardinality({m \in IconNodes : PreOrderBefore(m, n)}) = k - 1
                  r == parsed.icons[k]
              IN /\ r.node_id = JStr(IdOf(i))
                 /\ r.name = JStr(tree[i].name)
                 /\ r.section = JStr(NearestSection(i))
                 /\ r.path = JStr(SlashJoined(Chain(i)))

\* a root outside any section; its first child a FRAME that is an icon and
\* has an icon child; then a second child of the root, an icon whose
\* section stays "" and whose path leaves the FRAME out
C7_Witness ==
    /\ pc = "tree_done"
    /\ Len(tree) = 4
    /\ tree[2].parent = 1 /\ tree[3].parent = 2 /\ tree[4].parent = 1
    /\ Len(parsed.icons) = 3
    /\ Text(parsed.icons[1].section) = <<"i","c","-","a">>
    /\ Text(parsed.icons[2].path) = <<"b","/","i","c","-","a","/","i","c","-","a">>
    /\ Text(parsed.icons[3].section) = <<>>
    /\ Text(parsed.icons[3].path) = <<"b","/","i","c","-","a">>

\* C8: parse_figma_metadata never fails; for a text that decodes as a
\* single JSON object it returns parse_json_metadata of the decoded value,
\* and for every other text, malformed or valid JSON that is no object, it
\* returns parse_xml_metadata of the raw text; fields of the wrong kind do
\* not abort the traversal.
C8_NeverFails ==
    pc = "parse_done" =>
        LET data == json_loads(metadata)
        IN /\ parsed.raised = NotRaised
           /\ parsed.icons =
                 IF data.ok /\ data.val.k = "obj"
                 THEN parse_json_metadata(data.val, JStr(<<>>), JStr(<<>>)).icons
                 ELSE parse_xml_metadata(metadata)

\* C11: determine_variant leaves a name that matches none of the outlined
\* suffix patterns untouched, returning (name, False) with the base name
\* equal to the input even when it begins or ends with "-" or "_"; when a
\* pattern matches, the flag is True and only the first matching pattern
\* in list order is stripped.
C11_NonMatchingUntouched ==
    pc = "variant_done" =>
        LET k == FirstOutlinedPattern(Lower(variant_name))
        IN IF k = 0
           THEN variant_found = << variant_name, FALSE >>
           ELSE /\ variant_found[2] = TRUE
                /\ variant_found[1] = Strip(SuffixSub(variant_name, outlined_patterns[k]),
                                      IsDashUnderscore)

====
